---- MODULE Spec2Model ----
(***************************************************************************)
(* The multi-source crawl orchestrator of automated_news_crawler:          *)
(*   main.py             crawl_scraper_source, crawl_api_source, main      *)
(*   scraper_utils.py    fetch_and_process_page                            *)
(*   api_scraper.py      fetch_newsdata_api, process_newsdata_with_gemini  *)
(*   config.py           SOURCES, REQUIRED_KEYS                            *)
(*                                                                         *)
(* Strings of the program are modelled as integers: 0 is the empty string  *)
(* (falsy in Python), a positive number is a non-empty string.  A title n  *)
(* is the n-th distinct title the session accepts.  A dict is a function   *)
(* from its keys to its values.                                            *)
(***************************************************************************)
EXTENDS Integers, Sequences, FiniteSets, TLC

VARIABLES
    env,               \* os.environ: the set of credential names that are set
    content_pages,     \* per source: pages of the site that can yield items
    messy_pages,       \* per source: pages whose payload may be malformed
    flaky_producer,    \* whether the event-stream producer may fail in this run
    main_pc,           \* position of main(): absent, gather, done
    pc,                \* per source: position of its coroutine
    page_number,       \* crawl_scraper_source: page_number
    attempt,           \* crawl_scraper_source: attempt of `for attempt in range(3)`
    news,              \* crawl_scraper_source / crawl_api_source: news
    no_results_found,  \* crawl_scraper_source: no_results_found
    seen_names,        \* crawl_scraper_source: seen_names
    all_news,          \* crawl_scraper_source: all_news
    raw_results,       \* crawl_api_source: raw_results
    result,            \* per source: what its coroutine returned or raised
    kafka,             \* per source: the records handed to send_news_to_kafka
    kafka_calls,       \* per source: number of calls of send_news_to_kafka
    publish_failed,    \* per source: some publish failed inside the producer
    csv,               \* per source: the lists handed to save_news_to_csv
    fetched_page,      \* per source: page number of the latest fetch_and_process_page call
    tries,             \* per source: calls of fetch_and_process_page for page_number
                       \*   so far, while the session is running
    stop_reason,       \* per source: which exit of the loop was taken
    raw_count,         \* per source: raw records seen per watched title (capped at 2)
    raw_valid,         \* per source: watched titles carried by a valid raw record
    raw_invalid,       \* per source: some raw record broke the required-field contract
    last_raw,          \* per source: raw records the latest fetch handed over
    fetch_calls,       \* per source: calls of fetch_and_process_page, where counted
    count_calls,       \* whether this run counts the calls of fetch_and_process_page
    total_news,        \* main: total_news
    summary            \* main: the per-source lines printed after gather

vars == << env, content_pages, messy_pages, flaky_producer, main_pc, pc, page_number, attempt,
           news, no_results_found, seen_names, all_news, raw_results, result,
           kafka, kafka_calls, publish_failed, csv, fetched_page, tries,
           stop_reason, raw_count, raw_valid,
           raw_invalid, last_raw, fetch_calls, count_calls, total_news, summary >>

\* what the properties record about the raw records handed over
raw_log == << raw_count, raw_valid, raw_invalid, last_raw, fetch_calls, count_calls >>

(***************************************************************************)
(* Bounds of the model                                                     *)
(***************************************************************************)
MaxBatch == 2            \* raw records in one extracted payload
RichPages == 1           \* pages of a lone session whose payload may be malformed
WatchTitles == 1         \* titles whose raw carriers are counted
MainSites == 2           \* sites with content when all sources run together
MaxApiItems == 1         \* raw items in one API response

(***************************************************************************)
(* Program constants                                                       *)
(***************************************************************************)
MaxPages == 20           \* main.py: if page_number > 20
MaxAttempts == 3         \* main.py: for attempt in range(3)

REQUIRED_KEYS == << "title", "description", "url", "publishtime", "provider" >>

SOURCES ==
    [ moneycontrol  |-> [type |-> "scraper", gemini_key_env |-> "GEMINI_API_KEY_1"],
      thehindu      |-> [type |-> "scraper", gemini_key_env |-> "GEMINI_API_KEY_2"],
      indianexpress |-> [type |-> "scraper", gemini_key_env |-> "GEMINI_API_KEY_3"],
      newsdata      |-> [type |-> "api",     gemini_key_env |-> "GEMINI_API_KEY_3"] ]

SourceNames == DOMAIN SOURCES
ScraperSources == { s \in SourceNames : SOURCES[s].type = "scraper" }
ApiSources == { s \in SourceNames : SOURCES[s].type = "api" }
EnvKeys == { SOURCES[s].gemini_key_env : s \in SourceNames } \cup { "NEWSDATA_API_KEY" }

(***************************************************************************)
(* Python helpers                                                          *)
(***************************************************************************)
Range(f) == { f[x] : x \in DOMAIN f }

\* dict.get(key, default)
Get(d, key, default) == IF key \in DOMAIN d THEN d[key] ELSE default

\* dict.pop(key, None)
Pop(d, key) == [ k \in (DOMAIN d) \ {key} |-> d[k] ]

\* a dict literal extended or overwritten at one key
Put(d, key, v) == [ k \in (DOMAIN d) \cup {key} |-> IF k = key THEN v ELSE d[k] ]

Truthy(v) == v # 0

(***************************************************************************)
(* Record Validator and Session Deduplicator                               *)
(***************************************************************************)
\* utils/data_utils.py is not part of the sources at hand; the required-field
\* contract of the design (section 4.3) stands in for it: every required key
\* is present with a non-empty value.
is_complete_news(d, required_keys) ==
    \A i \in 1..Len(required_keys) :
        required_keys[i] \in DOMAIN d /\ Truthy(d[required_keys[i]])

\* utils/data_utils.py, from section 4.3: an exact match in seen_names.
is_duplicate_news(title, seen) == title \in seen

\* An element of extracted_data: a dict (kv holds it) or anything else.
Item(d) == [isdict |-> TRUE, kv |-> d]
NonDict == [isdict |-> FALSE, kv |-> [k \in {} |-> 0]]

\* keep_item without the test of the error flag (lines 214-216)
keep_item_ignoring_error_flag(item, seen) ==
    /\ item.isdict
    /\ is_complete_news(Pop(item.kv, "error"), REQUIRED_KEYS)
    /\ Truthy(Get(item.kv, "title", 0))
    /\ ~is_duplicate_news(Get(item.kv, "title", 0), seen)

\* scraper_utils.py 210-237: whether the loop body reaches
\* seen_names.add / complete_news.append for this element.
keep_item(item, seen) ==
    /\ item.isdict
    /\ ~Truthy(Get(item.kv, "error", 0))
    /\ is_complete_news(Pop(item.kv, "error"), REQUIRED_KEYS)
    /\ Truthy(Get(item.kv, "title", 0))
    /\ ~is_duplicate_news(Get(item.kv, "title", 0), seen)

\* process_items with seen_names.add moved before the checks of the element
RECURSIVE process_items_marking_first(_, _, _, _)
process_items_marking_first(extracted_data, idx, complete_news, seen) ==
    IF idx > Len(extracted_data)
    THEN [complete_news |-> complete_news, seen_names |-> seen]
    ELSE LET item == extracted_data[idx]
             marked == IF item.isdict /\ Truthy(Get(item.kv, "title", 0))
                       THEN seen \cup { item.kv["title"] }
                       ELSE seen
         IN  IF keep_item(item, seen)
             THEN process_items_marking_first(extracted_data, idx + 1,
                            Append(complete_news, Pop(item.kv, "error")), marked)
             ELSE process_items_marking_first(extracted_data, idx + 1,
                            complete_news, marked)

\* scraper_utils.py 207-245: the loop over extracted_data, from index idx on.
RECURSIVE process_items(_, _, _, _)
process_items(extracted_data, idx, complete_news, seen) ==
    IF idx > Len(extracted_data)
    THEN [complete_news |-> complete_news, seen_names |-> seen]
    ELSE LET item == extracted_data[idx] IN
         IF keep_item(item, seen)
         THEN process_items(extracted_data, idx + 1,
                            Append(complete_news, Pop(item.kv, "error")),
                            seen \cup { item.kv["title"] })
         ELSE process_items(extracted_data, idx + 1, complete_news, seen)

(***************************************************************************)
(* Page Fetch Adapter: what the two crawler.arun calls of one              *)
(* fetch_and_process_page call produced.                                   *)
(*   no_results  the probe found "No Results Found"                        *)
(*   success     result.success and result.extracted_content               *)
(*   json        "invalid" (json.loads raises), "scalar", "dict" or "list" *)
(*   items       the elements of the list, or the single dict              *)
(***************************************************************************)
Payload(no_results, success, json, items) ==
    [no_results |-> no_results, success |-> success, json |-> json, items |-> items]

Returned(batch, flag, seen) ==
    [news |-> batch, no_results |-> flag, seen_names |-> seen, raised |-> FALSE]

\* scraper_utils.py 148-252
fetch_and_process_page(payload, seen) ==
    IF payload.no_results THEN Returned(<< >>, TRUE, seen)
    ELSE IF ~payload.success THEN Returned(<< >>, FALSE, seen)
    ELSE IF payload.json = "invalid" THEN Returned(<< >>, FALSE, seen)
    ELSE IF payload.json = "dict" /\ Truthy(Get(payload.items[1].kv, "error", 0))
         THEN Returned(<< >>, FALSE, seen)
    ELSE IF payload.json \notin {"dict", "list"} THEN Returned(<< >>, FALSE, seen)
    ELSE LET extracted_data == payload.items IN
         IF extracted_data = << >> THEN Returned(<< >>, FALSE, seen)
         \* line 204: extracted_data[0].keys() outside the try block
         ELSE IF ~extracted_data[1].isdict
              THEN [news |-> << >>, no_results |-> FALSE, seen_names |-> seen,
                    raised |-> TRUE]
         ELSE LET r == process_items(extracted_data, 1, << >>, seen) IN
              IF r.complete_news = << >>
              THEN Returned(<< >>, FALSE, r.seen_names)
              ELSE Returned(r.complete_news, FALSE, r.seen_names)

(***************************************************************************)
(* The payloads the external extraction engine may hand back.              *)
(***************************************************************************)
RequiredSet == Range(REQUIRED_KEYS)

\* a raw record with every required field, carrying title t
RawDict(t) == [ k \in RequiredSet |-> IF k = "title" THEN t ELSE 1 ]

\* the next title the session has not accepted yet
Fresh(seen) == Cardinality(seen) + 1

CandidateTitles(seen) ==
    (seen \cap (1..WatchTitles)) \cup (Fresh(seen)..(Fresh(seen) + MaxBatch - 1))

Defective(t) ==
    { Pop(RawDict(t), k) : k \in RequiredSet }
        \cup { Put(RawDict(t), k, 0) : k \in RequiredSet }
        \cup { Put(RawDict(t), "error", 0) }

\* the elements a list of several raw records is drawn from
RichItems(seen) ==
    { Item(RawDict(t)) : t \in CandidateTitles(seen) }
        \cup { Item(Put(RawDict(Fresh(seen)), "error", 1)),
               Item(Pop(RawDict(Fresh(seen)), "description")),
               NonDict }

\* the payloads that are a single object
RichDicts(seen) ==
    { Item(RawDict(Fresh(seen))), Item(Put(RawDict(Fresh(seen)), "error", 1)) }
        \cup { Item(d) : d \in Defective(Fresh(seen)) }

SeqsUpTo(S, n) == UNION { [1..m -> S] : m \in 1..n }

\* Titles are numbered in the order the session accepts them: a title beyond
\* the next fresh one appears only after the one before it was accepted.
InOrder(items, seen) ==
    \A i \in 1..Len(items) :
        (items[i].isdict /\ Get(items[i].kv, "title", 0) > Fresh(seen)) =>
            \E j \in 1..(i - 1) :
                /\ items[j].isdict
                /\ Get(items[j].kv, "title", 0) = items[i].kv["title"] - 1
                /\ items[j].kv \in { RawDict(items[j].kv["title"]),
                                     Put(RawDict(items[j].kv["title"]), "error", 0) }

Failures(rich) ==
    { Payload(FALSE, FALSE, "none", << >>) } \cup
    IF rich
    THEN { Payload(FALSE, TRUE, "invalid", << >>),
           Payload(FALSE, TRUE, "scalar", << >>),
           Payload(FALSE, TRUE, "list", << >>),
           Payload(FALSE, TRUE, "dict", << Item(Put(RawDict(1), "error", 1)) >>) }
    ELSE {}

SimpleLists(seen) ==
    { << Item(RawDict(Fresh(seen))) >>, << NonDict >> }
        \cup { << Item(RawDict(t)) >> : t \in seen \cap {1} }

RichLists(seen) == { b \in SeqsUpTo(RichItems(seen), MaxBatch) : InOrder(b, seen) }

\* A page past the last content page of the site shows the marker.
Payloads(s) ==
    LET rich == page_number[s] <= messy_pages[s]
        seen == seen_names[s]
    IN  { Payload(TRUE, FALSE, "none", << >>) }
            \cup IF page_number[s] > content_pages[s] THEN {}
                 ELSE Failures(rich) \cup
                      IF rich
                      THEN { Payload(FALSE, TRUE, "list", b) : b \in RichLists(seen) }
                           \cup { Payload(FALSE, TRUE, "dict", << i >>) :
                                      i \in RichDicts(seen) }
                      ELSE { Payload(FALSE, TRUE, "list", b) : b \in SimpleLists(seen) }

(***************************************************************************)
(* What the run leaves behind for the properties: which raw records the    *)
(* extraction engine handed over.                                          *)
(***************************************************************************)
\* the raw records of one payload; a dict with an error flag in place of the
\* list is the engine's error report (scraper_utils.py 176-179), not a record
RawRecords(payload) ==
    IF payload.no_results \/ ~payload.success \/ payload.json \notin {"dict", "list"}
    THEN << >>
    ELSE IF payload.json = "dict" /\ Truthy(Get(payload.items[1].kv, "error", 0))
    THEN << >>
    ELSE payload.items

\* Required-field contract of section 4.3, stated on a raw record.
MeetsContract(item) ==
    /\ item.isdict
    /\ \A k \in {"title", "description", "url", "publishtime", "provider"} :
           k \in DOMAIN item.kv /\ item.kv[k] # 0
    /\ ("error" \in DOMAIN item.kv => item.kv["error"] = 0)

Carriers(items, t) ==
    { i \in 1..Len(items) : items[i].isdict /\ Get(items[i].kv, "title", 0) = t }

Min(a, b) == IF a < b THEN a ELSE b

CountRaw(count, items) ==
    [ t \in 1..WatchTitles |-> Min(2, count[t] + Cardinality(Carriers(items, t))) ]

ValidRaw(valid, items) ==
    valid \cup { t \in 1..WatchTitles :
                   \E i \in Carriers(items, t) : MeetsContract(items[i]) }

(***************************************************************************)
(* crawl_scraper_source                                                    *)
(***************************************************************************)
NoResult == [status |-> "none", value |-> << >>]
ReturnValue(list) == [status |-> "returned", value |-> list]
Exception == [status |-> "raised", value |-> << >>]

\* utils/kafka_producer.py is not part of the sources at hand; section 4.5
\* stands in for it: the batch is handed to the producer, and a failure of
\* the producer is logged and not raised.
send_news_to_kafka(s, batch, ok) ==
    /\ kafka' = [kafka EXCEPT ![s] = @ \o batch]
    /\ kafka_calls' = [kafka_calls EXCEPT ![s] = @ + 1]
    /\ publish_failed' = [publish_failed EXCEPT ![s] = @ \/ ~ok]

\* utils/data_utils.py save_news_to_csv, from section 6: persists the list.
save_news_to_csv(s, list) == csv' = [csv EXCEPT ![s] = Append(@, list)]

NoPublish == UNCHANGED << kafka, kafka_calls, publish_failed >>

\* own_seen with one module-level set shared by every call
own_seen_module_level(s, v) == [t \in SourceNames |-> v]

\* main.py 33, 43: seen_names is a local of the call, created by set() and
\* passed to fetch_and_process_page, which adds to it in place
own_seen(s, v) == [seen_names EXCEPT ![s] = v]

\* missing_key with the test of the credential left out
missing_key_unchecked(s) == FALSE

\* main.py 22-23, 81-87: os.getenv(source_config['gemini_key_env']) is falsy
missing_key(s) == SOURCES[s].gemini_key_env \notin env

\* main.py 22-38: the credential check, the session state, the first page
Start(s) ==
    /\ pc[s] = "start"
    /\ SOURCES[s].type = "scraper"
    /\ IF missing_key(s)
       THEN /\ pc' = [pc EXCEPT ![s] = "done"]
            /\ result' = [result EXCEPT ![s] = ReturnValue(<< >>)]
            /\ stop_reason' = [stop_reason EXCEPT ![s] = "no_key"]
            /\ UNCHANGED << page_number, all_news, seen_names, news, attempt >>
       ELSE /\ pc' = [pc EXCEPT ![s] = "fetch"]
            /\ page_number' = [page_number EXCEPT ![s] = 1]
            /\ all_news' = [all_news EXCEPT ![s] = << >>]
            /\ seen_names' = own_seen(s, {})
            /\ news' = [news EXCEPT ![s] = << >>]
            /\ attempt' = [attempt EXCEPT ![s] = 0]
            /\ UNCHANGED << result, stop_reason >>
    /\ NoPublish
    /\ UNCHANGED << env, content_pages, messy_pages, flaky_producer, main_pc,
                    no_results_found, raw_results, csv, fetched_page, tries,
                    raw_log, total_news, summary >>

\* finish without the test `if all_news` (line 70)
finish_saving_always(s, collected, reason) ==
    /\ save_news_to_csv(s, collected)
    /\ result' = [result EXCEPT ![s] = ReturnValue(collected)]
    /\ stop_reason' = [stop_reason EXCEPT ![s] = reason]
    /\ pc' = [pc EXCEPT ![s] = "done"]

\* main.py 70-75: the loop is left; the snapshot is written if anything was
\* collected and all_news is returned
finish(s, collected, reason) ==
    /\ IF collected # << >>
       THEN save_news_to_csv(s, collected)
       ELSE UNCHANGED csv
    /\ result' = [result EXCEPT ![s] = ReturnValue(collected)]
    /\ stop_reason' = [stop_reason EXCEPT ![s] = reason]
    /\ pc' = [pc EXCEPT ![s] = "done"]

\* advance with the cursor moved by two pages
advance_skipping_a_page(s, batch) ==
    /\ all_news' = [all_news EXCEPT ![s] = @ \o batch]
    /\ IF page_number[s] > MaxPages
       THEN /\ finish(s, all_news[s] \o batch, "cap")
            /\ UNCHANGED page_number
       ELSE /\ pc' = [pc EXCEPT ![s] = "pace"]
            /\ page_number' = [page_number EXCEPT ![s] = @ + 2]
            /\ UNCHANGED << csv, result, stop_reason >>

\* main.py 62-68: collect the batch, test the cap, advance
advance(s, batch) ==
    /\ all_news' = [all_news EXCEPT ![s] = @ \o batch]
    /\ IF page_number[s] > MaxPages
       THEN /\ finish(s, all_news[s] \o batch, "cap")
            /\ UNCHANGED page_number
       ELSE /\ pc' = [pc EXCEPT ![s] = "pace"]
            /\ page_number' = [page_number EXCEPT ![s] = @ + 1]
            /\ UNCHANGED << csv, result, stop_reason >>

\* publish_and_advance with a producer whose failure is raised to line 59
publish_and_advance_raising(s, batch, ok) ==
    /\ send_news_to_kafka(s, batch, ok)
    /\ IF ok
       THEN advance(s, batch)
       ELSE /\ pc' = [pc EXCEPT ![s] = "failed"]
            /\ result' = [result EXCEPT ![s] = Exception]
            /\ stop_reason' = [stop_reason EXCEPT ![s] = "exception"]
            /\ UNCHANGED << all_news, page_number, csv >>

\* main.py 59-68: publish the page's batch, collect it, test the cap, advance
publish_and_advance(s, batch, ok) ==
    /\ send_news_to_kafka(s, batch, ok)
    /\ advance(s, batch)

\* outcome with the `break` of line 47 taken for the marker only
outcome_without_break_on_news(batch, flag) ==
    IF flag THEN "stop" ELSE "retry"

\* outcome with the terminal marker ignored (lines 46, 52)
outcome_ignoring_marker(batch, flag) ==
    IF batch # << >> THEN "publish" ELSE "retry"

\* main.py 46-57: what the loops do with the pair fetch_and_process_page returned
outcome(batch, flag) ==
    IF flag THEN "stop"
    ELSE IF batch # << >> THEN "publish"
    ELSE "retry"

\* more_attempts with the bound of the loop off by one
more_attempts_off_by_one(a) == a + 1 <= MaxAttempts

\* main.py 39: whether `for attempt in range(3)` has an attempt after attempt a
more_attempts(a) == a + 1 < MaxAttempts

\* main.py 40-75: one call of fetch_and_process_page and the code that runs
\* after it up to the next sleep, or to the return.  The loop variable
\* attempt is dead once the for loop is left and is put back to 0 there.
Fetch(s) ==
    /\ pc[s] = "fetch"
    /\ \E payload \in Payloads(s) :
       \E r \in { fetch_and_process_page(payload, seen_names[s]) } :
       \E ok \in IF r.news # << >> /\ flaky_producer THEN BOOLEAN ELSE {TRUE} :
         /\ fetched_page' = [fetched_page EXCEPT ![s] = page_number[s]]
         /\ raw_count' = [raw_count EXCEPT ![s] = CountRaw(@, RawRecords(payload))]
         /\ raw_valid' = [raw_valid EXCEPT ![s] = ValidRaw(@, RawRecords(payload))]
         /\ raw_invalid' = [raw_invalid EXCEPT ![s] =
                                @ \/ \E i \in 1..Len(RawRecords(payload)) :
                                         ~MeetsContract(RawRecords(payload)[i])]
         /\ last_raw' = [last_raw EXCEPT ![s] = Len(RawRecords(payload))]
         /\ fetch_calls' = [fetch_calls EXCEPT ![s] = IF count_calls THEN @ + 1 ELSE @]
         /\ UNCHANGED count_calls
         /\ seen_names' = own_seen(s, r.seen_names)
         /\ IF r.raised
            THEN /\ pc' = [pc EXCEPT ![s] = "failed"]
                 /\ result' = [result EXCEPT ![s] = Exception]
                 /\ stop_reason' = [stop_reason EXCEPT ![s] = "exception"]
                 /\ attempt' = [attempt EXCEPT ![s] = 0]
                 /\ NoPublish
                 /\ UNCHANGED << news, no_results_found, all_news, page_number, csv >>
            ELSE /\ news' = [news EXCEPT ![s] = r.news]
                 /\ no_results_found' = [no_results_found EXCEPT ![s] = r.no_results]
                 /\ IF outcome(r.news, r.no_results) = "stop"
                    THEN /\ finish(s, all_news[s], "no_results")
                         /\ attempt' = [attempt EXCEPT ![s] = 0]
                         /\ NoPublish
                         /\ UNCHANGED << all_news, page_number >>
                    ELSE IF outcome(r.news, r.no_results) = "publish"
                    THEN /\ publish_and_advance(s, r.news, ok)
                         /\ attempt' = [attempt EXCEPT ![s] =
                                            IF pc'[s] = "pace" THEN @ ELSE 0]
                    ELSE /\ pc' = [pc EXCEPT ![s] = "backoff"]
                         /\ NoPublish
                         /\ UNCHANGED << all_news, page_number, stop_reason, attempt,
                                         csv, result >>
    /\ tries' = [tries EXCEPT ![s] =
                    IF pc'[s] = "backoff" THEN @ + 1 ELSE 0]
    /\ UNCHANGED << env, content_pages, messy_pages, flaky_producer, main_pc, raw_results,
                    total_news, summary >>

\* main.py 49-57, 70-75: sleep(5) is over; the next attempt, or the for loop
\* is exhausted with news empty and the while loop is left
Backoff(s) ==
    /\ pc[s] = "backoff"
    /\ IF more_attempts(attempt[s])
       THEN /\ attempt' = [attempt EXCEPT ![s] = @ + 1]
            /\ pc' = [pc EXCEPT ![s] = "fetch"]
            /\ UNCHANGED << stop_reason, csv, result >>
       ELSE /\ finish(s, all_news[s], "retries")
            /\ attempt' = [attempt EXCEPT ![s] = 0]
    /\ tries' = [tries EXCEPT ![s] = IF pc'[s] = "fetch" THEN @ ELSE 0]
    /\ NoPublish
    /\ UNCHANGED << env, content_pages, messy_pages, flaky_producer, main_pc, page_number,
                    news, no_results_found, seen_names, all_news,
                    raw_results, fetched_page, raw_log, total_news, summary >>

\* main.py 68, 37-39: sleep(2) is over; the next iteration of `while True`
\* sets news = [] and starts `for attempt in range(3)` again
Pace(s) ==
    /\ pc[s] = "pace"
    /\ pc' = [pc EXCEPT ![s] = "fetch"]
    /\ news' = [news EXCEPT ![s] = << >>]
    /\ attempt' = [attempt EXCEPT ![s] = 0]
    /\ NoPublish
    /\ UNCHANGED << env, content_pages, messy_pages, flaky_producer, main_pc, page_number,
                    no_results_found, seen_names, all_news,
                    raw_results, result, csv, fetched_page, tries,
                    stop_reason, raw_log, total_news, summary >>

(***************************************************************************)
(* crawl_api_source                                                        *)
(***************************************************************************)
ApiKeys == {"title", "description", "link", "pubDate", "source_id"}

\* a raw item of the search API with every field, carrying title t
ApiDict(t) == [ k \in ApiKeys |-> IF k = "title" THEN t ELSE 2 ]

ApiItems == { Item(ApiDict(1)), Item(Pop(ApiDict(1), "title")), NonDict }

\* api_scraper.py 17-31: the results of a successful response, [] otherwise
fetch_newsdata_api(response) ==
    IF response.raised THEN << >>
    ELSE IF response.status = "success" THEN response.results
    ELSE << >>

ApiResponses ==
    { [raised |-> TRUE, status |-> "none", results |-> << >>],
      [raised |-> FALSE, status |-> "error", results |-> << >>] }
        \cup { [raised |-> FALSE, status |-> "success", results |-> r] :
                   r \in {<< >>} \cup SeqsUpTo(ApiItems, MaxApiItems) }

\* api_scraper.py 59-65: the dict built from one raw item
transform(item) ==
    [ title       |-> Get(item.kv, "title", 0),
      description |-> Get(item.kv, "description", 0),
      url         |-> Get(item.kv, "link", 0),
      publishtime |-> Get(item.kv, "pubDate", 0),
      provider    |-> Get(item.kv, "source_id", 1) ]

\* api_scraper.py 34-68; item.get raises on an item that is not a dict
process_newsdata_with_gemini(raw) ==
    IF raw = << >> THEN [raised |-> FALSE, news |-> << >>]
    ELSE IF \E i \in 1..Len(raw) : ~raw[i].isdict
         THEN [raised |-> TRUE, news |-> << >>]
    ELSE [raised |-> FALSE, news |-> [ i \in 1..Len(raw) |-> transform(raw[i]) ]]

ScraperOnly ==
    UNCHANGED << page_number, attempt, no_results_found, seen_names,
                    all_news, fetched_page, tries, raw_log >>

\* main.py 80-93: the two credential checks, then the API call is handed
\* to the executor
ApiStart(s) ==
    /\ pc[s] = "start"
    /\ SOURCES[s].type = "api"
    /\ IF "NEWSDATA_API_KEY" \notin env \/ missing_key(s)
       THEN /\ pc' = [pc EXCEPT ![s] = "done"]
            /\ result' = [result EXCEPT ![s] = ReturnValue(<< >>)]
            /\ stop_reason' = [stop_reason EXCEPT ![s] = "no_key"]
       ELSE /\ pc' = [pc EXCEPT ![s] = "api_fetch"]
            /\ UNCHANGED << result, stop_reason >>
    /\ NoPublish
    /\ ScraperOnly
    /\ UNCHANGED << env, content_pages, messy_pages, flaky_producer, main_pc, news, raw_results,
                    csv, total_news, summary >>

\* main.py 93: fetch_newsdata_api has run in the executor
ApiFetch(s) ==
    /\ pc[s] = "api_fetch"
    /\ \E response \in ApiResponses :
           raw_results' = [raw_results EXCEPT ![s] = fetch_newsdata_api(response)]
    /\ pc' = [pc EXCEPT ![s] = "api_process"]
    /\ NoPublish
    /\ ScraperOnly
    /\ UNCHANGED << env, content_pages, messy_pages, flaky_producer, main_pc, news, result, csv,
                    stop_reason, total_news, summary >>

\* has_news with the test of main.py 105 left out
has_news_unchecked(batch) == TRUE

\* main.py 105: `if news:`
has_news(batch) == batch # << >>

\* main.py 96-110: process_newsdata_with_gemini has run in the executor; the
\* batch is published, saved and returned
ApiProcess(s) ==
    /\ pc[s] = "api_process"
    /\ LET r == process_newsdata_with_gemini(raw_results[s]) IN
       IF r.raised
       THEN /\ pc' = [pc EXCEPT ![s] = "failed"]
            /\ result' = [result EXCEPT ![s] = Exception]
            /\ stop_reason' = [stop_reason EXCEPT ![s] = "exception"]
            /\ NoPublish
            /\ UNCHANGED << news, csv >>
       ELSE /\ news' = [news EXCEPT ![s] = r.news]
            /\ IF has_news(r.news)
               THEN /\ send_news_to_kafka(s, r.news, TRUE)
                    /\ save_news_to_csv(s, r.news)
               ELSE /\ NoPublish
                    /\ UNCHANGED csv
            /\ result' = [result EXCEPT ![s] = ReturnValue(r.news)]
            /\ pc' = [pc EXCEPT ![s] = "done"]
            /\ UNCHANGED stop_reason
    /\ ScraperOnly
    /\ UNCHANGED << env, content_pages, messy_pages, flaky_producer, main_pc, raw_results,
                    total_news, summary >>

(***************************************************************************)
(* main                                                                    *)
(***************************************************************************)
\* config.py 5-33: the order of SOURCES.items()
TaskOrder == << "moneycontrol", "thehindu", "indianexpress", "newsdata" >>

\* the sum of f over the first n sources
RECURSIVE SumOver(_, _)
SumOver(f, n) == IF n = 0 THEN 0 ELSE SumOver(f, n - 1) + f[TaskOrder[n]]

\* main.py 139-145: total_news after the first n results
RECURSIVE count_news(_, _)
count_news(results, n) ==
    IF n = 0 THEN 0
    ELSE count_news(results, n - 1)
           + IF results[TaskOrder[n]].status = "raised" THEN 0
             ELSE Len(results[TaskOrder[n]].value)

\* main.py 141-145: the line printed for one source
summary_line(r) ==
    IF r.status = "raised"
    THEN [kind |-> "Error", count |-> 0]
    ELSE [kind |-> "Completed", count |-> Len(r.value)]

\* gathered with return_exceptions left out: the first exception ends gather
gathered_until_first_exception ==
    \/ \A s \in SourceNames : pc[s] \in {"done", "failed"}
    \/ \E s \in SourceNames : pc[s] = "failed"

\* gathered as asyncio.wait(return_when=FIRST_COMPLETED) would have it
gathered_first_completed == \E s \in SourceNames : pc[s] \in {"done", "failed"}

\* main.py 133-136: gather(return_exceptions=True) returns once every task has
\* returned or raised
gathered == \A s \in SourceNames : pc[s] \in {"done", "failed"}

\* main.py 133-149: gather has every result; the summary is printed
Summarize ==
    /\ main_pc = "gather"
    /\ gathered
    /\ total_news' = count_news(result, Len(TaskOrder))
    /\ summary' = [ s \in SourceNames |-> summary_line(result[s]) ]
    /\ main_pc' = "done"
    /\ NoPublish
    /\ ScraperOnly
    /\ UNCHANGED << env, content_pages, messy_pages, flaky_producer, pc, news, raw_results, result,
                    csv, stop_reason >>

(***************************************************************************)
(* Specifications                                                          *)
(***************************************************************************)
NoLine == [kind |-> "none", count |-> 0]

InitLocals ==
    /\ page_number = [s \in SourceNames |-> 0]
    /\ attempt = [s \in SourceNames |-> 0]
    /\ news = [s \in SourceNames |-> << >>]
    /\ no_results_found = [s \in SourceNames |-> FALSE]
    /\ seen_names = [s \in SourceNames |-> {}]
    /\ all_news = [s \in SourceNames |-> << >>]
    /\ raw_results = [s \in SourceNames |-> << >>]
    /\ result = [s \in SourceNames |-> NoResult]
    /\ kafka = [s \in SourceNames |-> << >>]
    /\ kafka_calls = [s \in SourceNames |-> 0]
    /\ publish_failed = [s \in SourceNames |-> FALSE]
    /\ csv = [s \in SourceNames |-> << >>]
    /\ fetched_page = [s \in SourceNames |-> 0]
    /\ tries = [s \in SourceNames |-> 0]
    /\ stop_reason = [s \in SourceNames |-> "none"]
    /\ raw_count = [s \in SourceNames |-> [t \in 1..WatchTitles |-> 0]]
    /\ raw_valid = [s \in SourceNames |-> {}]
    /\ raw_invalid = [s \in SourceNames |-> FALSE]
    /\ last_raw = [s \in SourceNames |-> 0]
    /\ fetch_calls = [s \in SourceNames |-> 0]
    /\ total_news = 0
    /\ summary = [s \in SourceNames |-> NoLine]

\* One call of crawl_scraper_source on its own, against a site that never
\* runs out of pages.
Init ==
    /\ InitLocals
    /\ main_pc = "absent"
    /\ \E s \in ScraperSources :
         /\ pc = [x \in SourceNames |-> IF x = s THEN "start" ELSE "absent"]
         /\ env \in { EnvKeys, EnvKeys \ { SOURCES[s].gemini_key_env } }
    /\ content_pages = [s \in SourceNames |-> MaxPages + 2]
    /\ messy_pages = [s \in SourceNames |-> RichPages]
    /\ flaky_producer = TRUE
    /\ count_calls = FALSE

\* One call of crawl_scraper_source on its own, every payload well-formed,
\* with the calls of fetch_and_process_page counted.
InitCalls ==
    /\ InitLocals
    /\ main_pc = "absent"
    /\ \E s \in ScraperSources :
         /\ pc = [x \in SourceNames |-> IF x = s THEN "start" ELSE "absent"]
         /\ env \in { EnvKeys, EnvKeys \ { SOURCES[s].gemini_key_env } }
    /\ content_pages = [s \in SourceNames |-> MaxPages + 2]
    /\ messy_pages = [s \in SourceNames |-> 0]
    /\ flaky_producer = FALSE
    /\ count_calls = TRUE

Session(s) == Start(s) \/ Fetch(s) \/ Backoff(s) \/ Pace(s)

Next == \E s \in ScraperSources : Session(s)

Spec == Init /\ [][Next]_vars

SpecCalls == InitCalls /\ [][Next]_vars

\* main(): every configured source runs; a site has one page of content or
\* none, and the producer delivers.
InitMain ==
    /\ InitLocals
    /\ main_pc = "gather"
    /\ pc = [s \in SourceNames |-> "start"]
    /\ env \in SUBSET EnvKeys
    /\ content_pages \in [SourceNames -> {0, 1}]
    /\ \A s \in ApiSources : content_pages[s] = 0
    /\ SumOver(content_pages, Len(TaskOrder)) <= MainSites
    /\ messy_pages = [s \in SourceNames |-> 0]
    /\ flaky_producer = FALSE
    /\ count_calls = FALSE

Api(s) == ApiStart(s) \/ ApiFetch(s) \/ ApiProcess(s)

NextMain ==
    \/ \E s \in ScraperSources : Session(s)
    \/ \E s \in ApiSources : Api(s)
    \/ Summarize

SpecMain == InitMain /\ [][NextMain]_vars

\* main.py 133: main() is suspended in `await asyncio.gather(...)`; the event
\* loop resumes it once the awaited future is done, so the step that follows
\* gather is not postponed forever.
SpecMainFair == SpecMain /\ WF_vars(Summarize)

(***************************************************************************)
(* Properties                                                              *)
(***************************************************************************)
Finished(s) == pc[s] = "done"

\* Required-field contract of section 4.3, stated on a record in the sink.
SinkContract(d) ==
    /\ \A k \in {"title", "description", "url", "publishtime", "provider"} :
           k \in DOMAIN d /\ d[k] # 0
    /\ "error" \notin DOMAIN d

AllMeet(records) == \A i \in 1..Len(records) : SinkContract(records[i])

WithTitle(records, t) == { i \in 1..Len(records) : records[i]["title"] = t }

\* C1  Cap safety: with the cap of 20 no fetch is attempted, and no batch is
\* published, for page 21 or any higher page number.
C1_NoFetchPastCap ==
    \A s \in ScraperSources :
        fetched_page[s] <= MaxPages /\ kafka_calls[s] <= MaxPages

\* C2  Dedup idempotence: no two records published by one session share a
\* title, and once the session is over a title carried by more than one raw
\* record, at least one of them meeting the required-field contract, has
\* exactly one record in the sink.
C2_DedupIdempotence ==
    \A s \in ScraperSources :
        /\ \A i, j \in 1..Len(kafka[s]) :
               kafka[s][i]["title"] = kafka[s][j]["title"] => i = j
        /\ pc[s] \in {"done", "failed"} =>
               \A t \in 1..WatchTitles :
                   (raw_count[s][t] >= 2 /\ t \in raw_valid[s]) =>
                       Cardinality(WithTitle(kafka[s], t)) = 1

\* C3  Required-field gate on the paginated path: whatever is in the page's
\* valid batch, published or collected for the snapshot carries a non-empty
\* title, description, url, publishtime and provider and no error marker, and
\* a title reaches the sink only if a raw record meeting the contract carried it.
C3_RequiredFieldGate ==
    \A s \in ScraperSources :
        /\ AllMeet(news[s]) /\ AllMeet(kafka[s]) /\ AllMeet(all_news[s])
        /\ \A i \in 1..Len(csv[s]) : AllMeet(csv[s][i])
        /\ \A t \in 1..WatchTitles :
               WithTitle(kafka[s], t) # {} => t \in raw_valid[s]

\* C3 witness: a session that was handed a raw record breaking the contract
\* has published and finished.
C3_Witness ==
    \E s \in ScraperSources :
        Finished(s) /\ raw_invalid[s] /\ kafka[s] # << >> /\ csv[s] # << >>

\* C4  Sink invariant across both source kinds: every record handed to the
\* event-stream publish or to the snapshot writer, by a paginated source or by
\* the one-shot API source, satisfies the required-field contract.
C4_SinkContractEverywhere ==
    \A s \in SourceNames :
        /\ AllMeet(kafka[s])
        /\ \A i \in 1..Len(csv[s]) : AllMeet(csv[s][i])

\* C5  Retry bound: no page is attempted more than 3 times, the attempts of a
\* page start again at zero when the cursor advances, and the session stops
\* for exhausted retries exactly after the third failed attempt of a page.
C5_RetryBound ==
    [][ \A s \in ScraperSources :
          /\ tries'[s] <= MaxAttempts
          /\ (pc[s] = "fetch" => tries[s] < MaxAttempts)
          /\ (page_number'[s] # page_number[s] => tries'[s] = 0)
          /\ (stop_reason'[s] = "retries" /\ stop_reason[s] # "retries") =>
                 (tries[s] = MaxAttempts /\ pc'[s] = "done")
          /\ (tries[s] = MaxAttempts /\ pc'[s] # pc[s]) =>
                 (pc'[s] = "done" /\ stop_reason'[s] = "retries")
      ]_vars

\* C5 witness: a session stopped because the retries of a page were exhausted.
C5_Witness ==
    \E s \in ScraperSources :
        Finished(s) /\ stop_reason[s] = "retries" /\ page_number[s] = 2

\* C6  Terminal short-circuit: once a fetch attempt has returned the terminal
\* marker the session is over: the page it was on is the last page fetched,
\* and only the pages before it were published.
C6_TerminalShortCircuit ==
    \A s \in ScraperSources :
        no_results_found[s] =>
            /\ Finished(s)
            /\ stop_reason[s] = "no_results"
            /\ fetched_page[s] = page_number[s]
            /\ kafka_calls[s] = page_number[s] - 1
            /\ news[s] = << >>

\* C6 witness: the marker was met on page 2, after page 1 was published.
C6_Witness ==
    \E s \in ScraperSources :
        no_results_found[s] /\ page_number[s] = 2 /\ fetched_page[s] = 2
            /\ kafka[s] # << >>

\* the record counts of the sources that did not fail, source by source
RECURSIVE SurvivorsTotal(_)
SurvivorsTotal(S) ==
    IF S = {} THEN 0
    ELSE LET s == CHOOSE x \in S : TRUE IN
         (IF pc[s] = "failed" THEN 0 ELSE Len(result[s].value))
             + SurvivorsTotal(S \ {s})

\* C7  Fault isolation: when the summary is printed every source has run to
\* its terminal state, a source that raised is reported as failed, every
\* other source is reported with its own record count, and the total is the
\* sum of the counts of the sources that did not fail.
C7_FaultIsolation ==
    main_pc = "done" =>
        /\ \A s \in SourceNames :
               /\ pc[s] \in {"done", "failed"}
               /\ pc[s] = "failed" => summary[s].kind = "Error"
               /\ pc[s] = "done" =>
                      /\ summary[s].kind = "Completed"
                      /\ summary[s].count = Len(result[s].value)
                      /\ result[s].value = IF s \in ScraperSources
                                           THEN all_news[s] ELSE news[s]
        /\ total_news = SurvivorsTotal(SourceNames)

\* C7 witness: one source raised, another one collected records, and the
\* summary was printed.
C7_Witness ==
    /\ main_pc = "done"
    /\ \E s, t \in SourceNames :
           pc[s] = "failed" /\ pc[t] = "done" /\ Len(result[t].value) > 0
    /\ total_news > 0

C9_AllRejectedStops ==
    \A s \in ScraperSources :
        tries[s] > 0 => last_raw[s] = 0

\* C10  End-of-session snapshot: no snapshot is written while the session
\* runs; when it stops for the terminal marker, exhausted retries or the page
\* cap the snapshot writer has been called once if records were collected and
\* not at all otherwise, and the snapshot is the published records in
\* publish order.
C10_Snapshot ==
    \A s \in ScraperSources :
        /\ ~Finished(s) => csv[s] = << >>
        /\ (Finished(s) /\ stop_reason[s] \in {"no_results", "retries", "cap"}) =>
               /\ all_news[s] = kafka[s]
               /\ csv[s] = IF kafka[s] = << >> THEN << >> ELSE << kafka[s] >>

\* C10 witness: page 1 gave two valid records, page 2 the terminal marker;
\* sink and snapshot hold those two records.
C10_Witness ==
    \E s \in ScraperSources :
        /\ Finished(s) /\ stop_reason[s] = "no_results" /\ page_number[s] = 2
        /\ Len(kafka[s]) = 2 /\ csv[s] = << kafka[s] >>

AllTerminal == \A s \in SourceNames : pc[s] \in {"done", "failed"}

\* C11  Join barrier: a summary line or the total exists only when every
\* launched source has returned or failed, and once every source has
\* finished the summary is eventually produced.
C11_JoinBarrier ==
    /\ [](((\E s \in SourceNames : summary[s] # NoLine) \/ main_pc = "done")
             => AllTerminal)
    /\ ((main_pc = "gather" /\ AllTerminal) ~> main_pc = "done")

\* C11 witness: the summary was printed after two sources returned records.
C11_Witness ==
    /\ main_pc = "done"
    /\ \E s, t \in SourceNames :
           s # t /\ summary[s].count > 0 /\ summary[t].count > 0
    /\ \A s \in SourceNames : summary[s] # NoLine

\* C12  Session termination: the fetch attempts of a session number at most
\* the page cap times the attempts allowed per page.
C12_BoundedFetches ==
    \A s \in ScraperSources : fetch_calls[s] <= MaxPages * MaxAttempts

\* the session state of one source
SessionState(s) == << page_number[s], seen_names[s], all_news[s] >>

\* C13  Session-state isolation under concurrency: a step of one source
\* leaves the page cursor, the seen titles and the collected records of every
\* other source unchanged, the session state of a source changes only in a
\* step of its own, and a title is in the seen set of a source only if a raw
\* record of that source carried it.
C13_SessionIsolation ==
    /\ [][ \A s \in ScraperSources :
              /\ pc'[s] # pc[s] =>
                     \A t \in ScraperSources \ {s} :
                         SessionState(t)' = SessionState(t)
              /\ SessionState(s)' # SessionState(s) => pc'[s] # pc[s]
         ]_vars
    /\ [](\A s \in ScraperSources :
             \A t \in seen_names[s] \cap (1..WatchTitles) : raw_count[s][t] > 0)

\* C13 witness: two sources have both accepted and published the same title.
C13_Witness ==
    \E s, t \in ScraperSources :
        /\ s # t
        /\ 1 \in seen_names[s] /\ 1 \in seen_names[t]
        /\ WithTitle(kafka[s], 1) # {} /\ WithTitle(kafka[t], 1) # {}

\* the credentials the source reads are all set
Credentialed(s) ==
    /\ SOURCES[s].gemini_key_env \in env
    /\ SOURCES[s].type = "api" => "NEWSDATA_API_KEY" \in env

\* C14  Missing credential skips only that source: a source whose credential
\* is absent fetches no page and calls no API, publishes nothing and writes
\* no snapshot; when the summary is printed it is reported with no records,
\* and every other source has run to its end and is reported with the
\* records it returned.
C14_MissingCredential ==
    /\ \A s \in SourceNames :
           ~Credentialed(s) =>
               /\ pc[s] \in {"start", "done"}
               /\ fetched_page[s] = 0 /\ raw_results[s] = << >>
               /\ kafka_calls[s] = 0 /\ kafka[s] = << >> /\ csv[s] = << >>
    /\ main_pc = "done" =>
           \A s \in SourceNames :
               IF Credentialed(s)
               THEN /\ pc[s] \in {"done", "failed"}
                    /\ stop_reason[s] # "no_key"
                    /\ summary[s] = summary_line(result[s])
                    /\ pc[s] = "done" => summary[s].count = Len(kafka[s])
               ELSE summary[s] = [kind |-> "Completed", count |-> 0]

\* C14 witness: the summary was printed with one source skipped for its
\* credential and another one having published.
C14_Witness ==
    /\ main_pc = "done"
    /\ \E s, t \in SourceNames :
           /\ ~Credentialed(s) /\ stop_reason[s] = "no_key"
           /\ Credentialed(t) /\ kafka[t] # << >> /\ summary[t].count > 0

\* C15  In-order, strictly sequential pagination: every fetch is of the page
\* under the cursor, the cursor and the page numbers fetched never decrease,
\* a page is fetched only when the batches of all pages before it have been
\* published, and the n-th batch that reaches the sink is that of page n.
C15_InOrderPagination ==
    [][ \A s \in ScraperSources :
          /\ page_number'[s] \in { page_number[s], page_number[s] + 1 }
          /\ fetched_page'[s] >= fetched_page[s]
          /\ fetched_page'[s] <= page_number'[s]
          /\ (pc[s] = "fetch" /\ pc'[s] # "fetch") =>
                 /\ fetched_page'[s] = page_number[s]
                 /\ kafka_calls[s] = page_number[s] - 1
          /\ kafka_calls'[s] # kafka_calls[s] =>
                 /\ kafka_calls'[s] = kafka_calls[s] + 1
                 /\ kafka_calls'[s] = page_number[s]
                 /\ fetched_page'[s] = page_number[s]
      ]_vars

\* C15 witness: a session that ended on page 3 after a retried page, the
\* batches of pages 1 and 2 published.
C15_Witness ==
    \E s \in ScraperSources :
        /\ Finished(s) /\ fetched_page[s] = 3 /\ kafka_calls[s] = 2
        /\ stop_reason[s] = "retries"

\* C16  Retry recovery: a failed attempt leaves the seen titles, the sink and
\* the collected records as they were; when an attempt after failed ones
\* returns a valid batch, that batch is published and collected in the same
\* step, its titles were not seen before and are seen now, the attempts of
\* the page are over and the cursor advances (or the cap ends the session).
C16_RetryRecovery ==
    [][ \A s \in ScraperSources :
          /\ (pc[s] = "fetch" /\ pc'[s] = "backoff") =>
                 /\ seen_names'[s] = seen_names[s]
                 /\ kafka'[s] = kafka[s] /\ all_news'[s] = all_news[s]
                 /\ page_number'[s] = page_number[s]
          /\ (pc[s] = "fetch" /\ tries[s] > 0 /\ news'[s] # << >>) =>
                 /\ kafka'[s] = kafka[s] \o news'[s]
                 /\ all_news'[s] = all_news[s] \o news'[s]
                 /\ \A i \in 1..Len(news'[s]) :
                        /\ news'[s][i]["title"] \notin seen_names[s]
                        /\ news'[s][i]["title"] \in seen_names'[s]
                 /\ tries'[s] = 0
                 /\ \/ page_number'[s] = page_number[s] + 1 /\ pc'[s] = "pace"
                    \/ page_number[s] > MaxPages /\ pc'[s] = "done"
      ]_vars

\* C16 witness: the third attempt of page 1 returned a valid batch after two
\* attempts that handed over no record at all; the batch is published and
\* the cursor is on page 2.
C16_Witness ==
    \E s \in ScraperSources :
        /\ pc[s] = "pace" /\ page_number[s] = 2 /\ fetched_page[s] = 1
        /\ attempt[s] = 2 /\ ~raw_invalid[s]
        /\ kafka[s] # << >> /\ kafka[s] = news[s]

\* C17  Backoff only between attempts: a session waits in the backoff of a
\* page only when a further attempt of that page follows, so no wait follows
\* the third failed attempt.
C17_BackoffOnlyBetween ==
    \A s \in ScraperSources :
        pc[s] = "backoff" => tries[s] < MaxAttempts

TitlesOf(records) == { records[i]["title"] : i \in 1..Len(records) }

\* C18  seenTitles tracks exactly what was published: at every point of a
\* session the seen titles are the titles of the collected records and of
\* the records handed to the sink, and a fetch attempt that yields no valid
\* batch leaves the seen titles unchanged.
C18_SeenTracksPublished ==
    /\ [](\A s \in ScraperSources :
             /\ seen_names[s] = TitlesOf(all_news[s])
             /\ seen_names[s] = TitlesOf(kafka[s]))
    /\ [][ \A s \in ScraperSources :
              (pc[s] = "fetch" /\ pc'[s] # "fetch" /\ kafka_calls'[s] = kafka_calls[s])
                  => seen_names'[s] = seen_names[s]
         ]_vars

\* C18 witness: on page 2 an attempt was handed one record, a duplicate of
\* the title published from page 1, and yielded no batch.
C18_Witness ==
    \E s \in ScraperSources :
        /\ pc[s] = "backoff" /\ page_number[s] = 2 /\ last_raw[s] = 1
        /\ seen_names[s] = {1} /\ Len(all_news[s]) = 1

\* C19  Publish is never invoked with an empty batch: every call of the
\* event-stream publish hands over at least one record, every list handed to
\* the snapshot writer is non-empty, and the one-shot path publishes at most
\* once and writes at most one snapshot per run.
C19_NoEmptyPublish ==
    /\ [][ \A s \in SourceNames :
              kafka_calls'[s] # kafka_calls[s] =>
                  /\ kafka_calls'[s] = kafka_calls[s] + 1
                  /\ Len(kafka'[s]) > Len(kafka[s])
         ]_vars
    /\ [](\A s \in SourceNames :
             /\ \A i \in 1..Len(csv[s]) : csv[s][i] # << >>
             /\ s \in ApiSources => (kafka_calls[s] <= 1 /\ Len(csv[s]) <= 1))

\* C19 witness: the summary was printed after the one-shot source and a
\* paginated source have both published and written a snapshot.
C19_Witness ==
    /\ main_pc = "done"
    /\ \E s \in ApiSources : kafka_calls[s] = 1 /\ Len(csv[s]) = 1
    /\ \E s \in ScraperSources : kafka_calls[s] = 1 /\ Len(csv[s]) = 1

====
